---- MODULE Spec2Model ----
(***************************************************************************)
(* Model of linkedin_agent: the single-post pipeline (LinkedInPostAgent,   *)
(* agents/post_agent.py and its earlier version agents.py), the research / *)
(* batch pipeline (LinkedInResearchAgent, agents/research_agent.py) with   *)
(* its batch write loop, and the sequencer that routes between steps.      *)
(*                                                                         *)
(* Texts are tuples of one-character strings (error messages) or of tokens *)
(* (LLM responses, where each marker is one token).  A Python dict is a    *)
(* function from its keys; a key that was never written is not in DOMAIN.  *)
(***************************************************************************)
EXTENDS Integers, Sequences, FiniteSets, TLC

\* ------------------------------------------------------------------ bounds
\* most articles one scrape of TechCrunch returns
MaxScraped == 2
\* most results one news search returns
MaxFound == 2
\* cap on the number of steps recorded for one run of a workflow
MaxTrace == 7
\* the longest text handed to the parser on its own, in pieces (a piece is
\* one character or one marker)
MaxPieces == 4
\* the longest run of blank lines in the texts handed to the parser
MaxBlankLines == 4
\* most selected articles handed to the fallback plan on its own
MaxSelected == 15

\* ------------------------------------------------------- program constants
max_retries == 3
base_delay == 60
\* the fallback selection keeps the first 7 articles
FallbackSelect == 7
\* the fallback plan puts at most 2 posts on a day
PostsPerDay == 2

\* langgraph's END marker
END == "__end__"

\* Python None, for text-valued fields and for dict-valued fields
None == <<"None">>
NoneDict == [none |-> TRUE]

\* ------------------------------------------------------------ text helpers
UpperCase ==
    <<"A","B","C","D","E","F","G","H","I","J","K","L","M",
      "N","O","P","Q","R","S","T","U","V","W","X","Y","Z">>
LowerCase ==
    <<"a","b","c","d","e","f","g","h","i","j","k","l","m",
      "n","o","p","q","r","s","t","u","v","w","x","y","z">>

\* the lower-case letter of each upper-case letter
UpperToLower ==
    [c \in {UpperCase[i] : i \in 1..Len(UpperCase)} |->
        LowerCase[CHOOSE i \in 1..Len(UpperCase) : UpperCase[i] = c]]

\* str.lower() on one character
LowerChar(c) == IF c \in DOMAIN UpperToLower THEN UpperToLower[c] ELSE c

\* str.lower()
Lower(s) == [i \in 1..Len(s) |-> LowerChar(s[i])]

\* Python's "sub in s"
Contains(s, sub) ==
    \E i \in 1..(Len(s) - Len(sub) + 1) :
        \A j \in 1..Len(sub) : s[i + j - 1] = sub[j]

QuotaWord == <<"q","u","o","t","a">>

\* texts of the errors the external collaborators raise in this model
ErrQuotaLower ==
    <<"q","u","o","t","a"," ","e","x","c","e","e","d","e","d">>
ErrQuotaMixed ==
    <<"4","2","9"," ","Q","u","o","t","a"," ","e","x","c","e","e","d","e","d">>
ErrTimeout == <<"t","i","m","e","o","u","t">>
ExternalErrors == {ErrQuotaLower, ErrQuotaMixed, ErrTimeout}

\* str(e) of the errors Python itself raises inside a step
IndexErrorText ==
    <<"l","i","s","t"," ","i","n","d","e","x"," ","o","u","t"," ","o","f",
      " ","r","a","n","g","e">>
TypeErrorNoneText ==
    <<"u","n","s","u","p","p","o","r","t","e","d"," ","o","p","e","r","a",
      "n","d"," ","t","y","p","e","(","s",")"," ","f","o","r"," ","+",":",
      " ","'","N","o","n","e","T","y","p","e","'"," ","a","n","d"," ","'",
      "s","t","r","'">>
TypeErrorShapeText ==
    <<"'","i","n","t","'"," ","o","b","j","e","c","t"," ","i","s"," ","n",
      "o","t"," ","i","t","e","r","a","b","l","e">>
TokenMissingText ==
    <<"L","i","n","k","e","d","I","n"," ","a","c","c","e","s","s"," ","t",
      "o","k","e","n"," ","n","o","t"," ","f","o","u","n","d"," ","i","n",
      " ","e","n","v","i","r","o","n","m","e","n","t"," ","v","a","r","i",
      "a","b","l","e","s">>

\* an error: its text, the step that let it escape, and whether the external
\* call raised it ("external") or the step's own code did ("step")
Error(text, step, origin) == [text |-> text, step |-> step, origin |-> origin]
NoError == [text |-> <<>>, step |-> "", origin |-> ""]

\* a Python str held where a value of another type can be held too
Str(s) == [str |-> s]

\* dict update: the keys of upd overwrite or extend d (langgraph merges the
\* record a step returns into the run state key by key)
Merge(d, upd) ==
    [k \in (DOMAIN d) \cup (DOMAIN upd) |-> IF k \in DOMAIN upd THEN upd[k] ELSE d[k]]

\* ------------------------------------------------------------ Python lists
\* list[i] with Python's index rules: 0-based, negative indices count from
\* the end, anything else is an IndexError
InRange(list, i) == -Len(list) <= i /\ i < Len(list)
PyGet(list, i) == IF i >= 0 THEN list[i + 1] ELSE list[Len(list) + i + 1]
\* list[:n]
Take(list, n) == SubSeq(list, 1, IF n < Len(list) THEN n ELSE Len(list))
Min(a, b) == IF a < b THEN a ELSE b

\* json.dumps / json.loads of a list of dicts: the text carries the list
json_dumps(v) == [json |-> v]
json_loads(t) == t.json

\* --------------------------------------------------------------- articles
\* the i-th result of a news search (DuckDuckGoSearchResults, list format)
Hit(i) ==
    [title |-> "hit" \o ToString(i), link |-> "hitlink" \o ToString(i),
     snippet |-> "hitsnippet" \o ToString(i)]
\* a search returning m results
Hits(m) == [i \in 1..m |-> Hit(i - 1)]
\* the i-th article scraped from TechCrunch: the snippet is always empty
Scraped(i) ==
    [title |-> "title" \o ToString(i), link |-> "link" \o ToString(i),
     snippet |-> "", source |-> "TechCrunch"]
ScrapedList(n) == [i \in 1..n |-> Scraped(i - 1)]

\* ------------------------------------------------------------ LLM outputs
\* an AI message
AIMessage(content) == [role |-> "ai", content |-> content]
\* a prompt turn
HumanMessage(content) == [role |-> "human", content |-> content]

\* the analysis text is not interpreted by any step
AnalysisText == <<"analysis">>

\* a ranking response: int(content.strip()) either yields value or raises
\* ValueError
RankInt(i) == [isInt |-> TRUE, value |-> i]
RankGarbage == [isInt |-> FALSE, value |-> 0]
\* the ranking responses of the model: no integer, the second article, the
\* last article (Python's -1), an index past every candidate list
RankResponses == {RankGarbage, RankInt(1), RankInt(-1), RankInt(MaxFound)}

\* the markers of a post-generation response
start_marker == <<"[","S","T","A","R","T","_","P","O","S","T","]">>
end_marker == <<"[","E","N","D","_","P","O","S","T","]">>

\* post-generation responses: two with both markers, one without markers,
\* one without the end marker
GenResponses ==
    { <<"b","l","a","h"," ">> \o start_marker \o <<" ","P","o","s","t">> \o end_marker,
      start_marker \o <<"P","o","s","t","\n">> \o end_marker \o <<"b","y","e">>,
      <<"b","l","a","h"," ","P","o","s","t">>,
      start_marker \o <<"P","o","s","t">> }

\* --------------------------------------------------------- output parser
\* \s
Spaces == {" ", "\n", "\t"}
IsSpace(c) == c \in Spaces

\* str.strip()
RECURSIVE strip(_)
strip(text) ==
    IF text = <<>> THEN <<>>
    ELSE IF IsSpace(Head(text)) THEN strip(Tail(text))
    ELSE IF IsSpace(text[Len(text)]) THEN strip(SubSeq(text, 1, Len(text) - 1))
    ELSE text

\* ------------------------------------------------------- character classes
Digits == {"0", "1", "2", "3", "4", "5", "6", "7", "8", "9"}
Letters ==
    {UpperCase[i] : i \in 1..Len(UpperCase)} \cup {LowerCase[i] : i \in 1..Len(LowerCase)}
        \cup {"u00e2", "u00c2"}
\* \d
IsDigit(c) == c \in Digits
\* \w
WordChars == Letters \cup Digits \cup {"_"}
IsWord(c) == c \in WordChars

\* the upper-case letter of each lower-case letter
LowerToUpper ==
    [c \in {LowerCase[i] : i \in 1..Len(LowerCase)} \cup {"u00e2"} |->
        IF c = "u00e2" THEN "u00c2"
        ELSE UpperCase[CHOOSE i \in 1..Len(LowerCase) : LowerCase[i] = c]]
\* str.upper()
Upper(s) == [i \in 1..Len(s) |-> IF s[i] \in DOMAIN LowerToUpper THEN LowerToUpper[s[i]] ELSE s[i]]

\* the least element of a non-empty set of positions
MinOf(S) == CHOOSE x \in S : \A y \in S : x <= y
\* the greatest element of a non-empty set of positions
MaxOf(S) == CHOOSE x \in S : \A y \in S : x >= y

\* "." of a regular expression matches every position of text[a..b]: none
\* is a newline
Dots(text, a, b) == \A k \in a..b : text[k] # "\n"

\* "^" with re.MULTILINE matches at position i
LineStart(text, i) == i = 1 \/ text[i - 1] = "\n"

\* the last position of the longest run of characters of class that starts
\* at position i (i - 1 when there is no such character at i)
RunEnd(text, i, class) ==
    MaxOf({e \in (i - 1)..Len(text) : \A k \in i..e : text[k] \in class})

\* ------------------------------------------------ _remove_markdown, by line
\* re.sub(r'\*\*(.+?)\*\*', lambda m: m.group(1).upper(), text): the
\* positions j where the closing ** of a match opening at i can start
bold_closings(text, i) ==
    {j \in (i + 3)..(Len(text) - 1) :
        text[j] = "*" /\ text[j + 1] = "*" /\ Dots(text, i + 2, j - 1)}

\* variant: the bold content keeps its letter case
RECURSIVE sub_bold_KeepCase(_, _)
sub_bold_KeepCase(text, i) ==
    IF i > Len(text) THEN <<>>
    ELSE IF /\ i + 1 <= Len(text)
            /\ text[i] = "*" /\ text[i + 1] = "*"
            /\ bold_closings(text, i) # {}
         THEN LET j == MinOf(bold_closings(text, i))
              IN  SubSeq(text, i + 2, j - 1) \o sub_bold_KeepCase(text, j + 2)
         ELSE <<text[i]>> \o sub_bold_KeepCase(text, i + 1)

RECURSIVE sub_bold(_, _)
sub_bold(text, i) ==
    IF i > Len(text) THEN <<>>
    ELSE IF /\ i + 1 <= Len(text)
            /\ text[i] = "*" /\ text[i + 1] = "*"
            /\ bold_closings(text, i) # {}
         THEN LET j == MinOf(bold_closings(text, i))
              IN  Upper(SubSeq(text, i + 2, j - 1)) \o sub_bold(text, j + 2)
         ELSE <<text[i]>> \o sub_bold(text, i + 1)

\* re.sub(r'(?<!\w)\*(.+?)\*(?!\w)|_(.+?)_', ...): the positions of the
\* closing * of the first alternative opening at i
star_closings(text, i) ==
    {j \in (i + 2)..Len(text) :
        /\ text[j] = "*"
        /\ Dots(text, i + 1, j - 1)
        /\ (j = Len(text) \/ ~IsWord(text[j + 1]))}

\* the positions of the closing _ of the second alternative opening at i
underscore_closings(text, i) ==
    {j \in (i + 2)..Len(text) : text[j] = "_" /\ Dots(text, i + 1, j - 1)}

RECURSIVE sub_italic(_, _)
sub_italic(text, i) ==
    IF i > Len(text) THEN <<>>
    ELSE IF /\ text[i] = "*"
            /\ (i = 1 \/ ~IsWord(text[i - 1]))
            /\ star_closings(text, i) # {}
         THEN LET j == MinOf(star_closings(text, i))
              IN  SubSeq(text, i + 1, j - 1) \o sub_italic(text, j + 1)
         ELSE IF text[i] = "_" /\ underscore_closings(text, i) # {}
         THEN LET j == MinOf(underscore_closings(text, i))
              IN  SubSeq(text, i + 1, j - 1) \o sub_italic(text, j + 1)
         ELSE <<text[i]>> \o sub_italic(text, i + 1)

\* re.sub(r'\[(.+?)\]\(.+?\)', r'\1', text): the positions of the ")" that
\* can close a match whose "](" starts at j
paren_closings(text, j) ==
    {k \in (j + 3)..Len(text) : text[k] = ")" /\ Dots(text, j + 2, k - 1)}

\* the positions of the "](" of a match opening at i
bracket_closings(text, i) ==
    {j \in (i + 2)..(Len(text) - 1) :
        /\ text[j] = "]" /\ text[j + 1] = "("
        /\ Dots(text, i + 1, j - 1)
        /\ paren_closings(text, j) # {}}

RECURSIVE sub_link(_, _)
sub_link(text, i) ==
    IF i > Len(text) THEN <<>>
    ELSE IF text[i] = "[" /\ bracket_closings(text, i) # {}
         THEN LET j == MinOf(bracket_closings(text, i))
                  k == MinOf(paren_closings(text, j))
              IN  SubSeq(text, i + 1, j - 1) \o sub_link(text, k + 1)
         ELSE <<text[i]>> \o sub_link(text, i + 1)

\* re.sub(r'(?<!\w)#(\w+)', r'#\1', text): the end of the match opening at i
RECURSIVE sub_hashtag(_, _)
sub_hashtag(text, i) ==
    IF i > Len(text) THEN <<>>
    ELSE IF /\ text[i] = "#"
            /\ (i = 1 \/ ~IsWord(text[i - 1]))
            /\ RunEnd(text, i + 1, WordChars) >= i + 1
         THEN LET e == RunEnd(text, i + 1, WordChars)
              IN  <<"#">> \o SubSeq(text, i + 1, e) \o sub_hashtag(text, e + 1)
         ELSE <<text[i]>> \o sub_hashtag(text, i + 1)

\* re.sub of the backtick pattern (a backtick, (.+?), a backtick) by r'\1';
\* the backtick character is written u0060
backtick_closings(text, i) ==
    {j \in (i + 2)..Len(text) : text[j] = "u0060" /\ Dots(text, i + 1, j - 1)}

RECURSIVE sub_backtick(_, _)
sub_backtick(text, i) ==
    IF i > Len(text) THEN <<>>
    ELSE IF text[i] = "u0060" /\ backtick_closings(text, i) # {}
         THEN LET j == MinOf(backtick_closings(text, i))
              IN  SubSeq(text, i + 1, j - 1) \o sub_backtick(text, j + 1)
         ELSE <<text[i]>> \o sub_backtick(text, i + 1)

\* the replacement of a bullet marker, as the source file spells it
bullet == <<"u00e2", "u20ac", "u00a2", " ">>

\* re.sub(r'^[-*+]\s+', bullet, text, flags=re.MULTILINE)
RECURSIVE sub_bullet(_, _)
sub_bullet(text, i) ==
    IF i > Len(text) THEN <<>>
    ELSE IF /\ LineStart(text, i)
            /\ text[i] \in {"-", "*", "+"}
            /\ RunEnd(text, i + 1, Spaces) >= i + 1
         THEN bullet \o sub_bullet(text, RunEnd(text, i + 1, Spaces) + 1)
         ELSE <<text[i]>> \o sub_bullet(text, i + 1)

\* re.sub(r'^\d+\.\s+', '', text, flags=re.MULTILINE)
RECURSIVE sub_numbered(_, _)
sub_numbered(text, i) ==
    IF i > Len(text) THEN <<>>
    ELSE LET d == RunEnd(text, i, Digits)
         IN  IF /\ LineStart(text, i)
                /\ d >= i
                /\ d + 1 <= Len(text) /\ text[d + 1] = "."
                /\ RunEnd(text, d + 2, Spaces) >= d + 2
             THEN sub_numbered(text, RunEnd(text, d + 2, Spaces) + 1)
             ELSE <<text[i]>> \o sub_numbered(text, i + 1)

\* variant: the pattern \n{4,}
RECURSIVE sub_newlines_FourOrMore(_, _)
sub_newlines_FourOrMore(text, i) ==
    IF i > Len(text) THEN <<>>
    ELSE IF RunEnd(text, i, {"\n"}) >= i + 3
         THEN <<"\n", "\n">> \o sub_newlines_FourOrMore(text, RunEnd(text, i, {"\n"}) + 1)
         ELSE <<text[i]>> \o sub_newlines_FourOrMore(text, i + 1)

\* re.sub(r'\n{3,}', '\n\n', text)
RECURSIVE sub_newlines(_, _)
sub_newlines(text, i) ==
    IF i > Len(text) THEN <<>>
    ELSE IF RunEnd(text, i, {"\n"}) >= i + 2
         THEN <<"\n", "\n">> \o sub_newlines(text, RunEnd(text, i, {"\n"}) + 1)
         ELSE <<text[i]>> \o sub_newlines(text, i + 1)

\* LinkedInPostOutputParser._remove_markdown
remove_markdown(text) ==
    LET bold == sub_bold(text, 1)
        italic == sub_italic(bold, 1)
        links == sub_link(italic, 1)
        hashtags == sub_hashtag(links, 1)
        backticks == sub_backtick(hashtags, 1)
        bullets == sub_bullet(backticks, 1)
        numbered == sub_numbered(bullets, 1)
        newlines == sub_newlines(numbered, 1)
    IN  strip(newlines)

\* str.index: the position of the first occurrence of sub in text, 0 when
\* there is none (the caller turns 0 into ValueError)
IndexOf(text, sub) ==
    LET at == {i \in 1..(Len(text) - Len(sub) + 1) :
                  \A j \in 1..Len(sub) : text[i + j - 1] = sub[j]}
    IN  IF at = {} THEN 0 ELSE MinOf(at)

\* variant: a missing end marker means "to the end of the text"
parse_OpenEnded(text) ==
    LET s == IndexOf(text, start_marker)
        e == IndexOf(text, end_marker)
    IN  IF s = 0 THEN None
        ELSE remove_markdown(strip(SubSeq(text, s + Len(start_marker),
                                          IF e = 0 THEN Len(text) ELSE e - 1)))

\* LinkedInPostOutputParser.parse: None when text.index raises ValueError
parse(text) ==
    LET s == IndexOf(text, start_marker)
        e == IndexOf(text, end_marker)
    IN  IF s = 0 \/ e = 0 THEN None
        ELSE remove_markdown(strip(SubSeq(text, s + Len(start_marker), e - 1)))

\* ----------------------------------------------------------------- graphs
\* variant: a sequencer-level retry of the whole pipeline
PostAgentEdges_Retry ==
    { <<"search", "analyze">>, <<"analyze", "select_news">>,
      <<"select_news", "generate_post">>, <<"generate_post", "search">> }

PostAgentNodes == {"search", "analyze", "select_news", "generate_post"}
PostAgentEdges ==
    { <<"search", "analyze">>, <<"analyze", "select_news">>,
      <<"select_news", "generate_post">>, <<"generate_post", END>> }

\* agents.py, the earlier version of the same class
LegacyNodes ==
    {"search", "analyze", "select_news", "generate_post", "post_to_linkedin"}
\* variant: the posting step is routed back to generate_post
LegacyEdges_Regenerate ==
    { <<"search", "analyze">>, <<"analyze", "select_news">>,
      <<"select_news", "generate_post">>,
      <<"generate_post", "post_to_linkedin">>, <<"generate_post", END>>,
      <<"post_to_linkedin", "generate_post">> }

LegacyEdges ==
    { <<"search", "analyze">>, <<"analyze", "select_news">>,
      <<"select_news", "generate_post">>,
      <<"generate_post", "post_to_linkedin">>, <<"generate_post", END>> }

\* variant: routes by the next_step plan_posts returns
ResearchEdges_ByNextStep ==
    { <<"scrape", "select_news">>, <<"select_news", "plan_posts">>,
      <<"plan_posts", "save_to_database">>, <<"write_post", "save_to_database">>,
      <<"save_to_database", END>> }

ResearchNodes ==
    {"scrape", "select_news", "plan_posts", "write_post", "save_to_database"}
ResearchEdges ==
    { <<"scrape", "select_news">>, <<"select_news", "plan_posts">>,
      <<"plan_posts", "write_post">>, <<"write_post", "save_to_database">>,
      <<"save_to_database", END>> }

\* the nodes an edge set sends control to after node n
Successors(edges, n) == {e[2] : e \in {d \in edges : d[1] = n}}

\* the sequencer's routing: an edge to END starts nothing; the run is over
\* when no node is started
NextNode(edges, n) ==
    LET started == Successors(edges, n) \ {END}
    IN  IF started = {} THEN "done" ELSE CHOOSE m \in started : TRUE

\* ------------------------------------------------------------------ state
VARIABLES
    agent,      \* the class whose run this is: "post_agent", "agents", "research_agent"
    ppc,        \* single-post pipeline: "idle", the node to execute, "done", "failed"
    pstate,     \* single-post pipeline: the run state dict
    ptrace,     \* single-post pipeline: the nodes completed in this run, in order
    perr,       \* single-post pipeline: the error that aborted the run
    published,  \* the texts the posting client has published
    rpc,        \* research pipeline: "idle", the node to execute, "done", "failed"
    rstate,     \* research pipeline: the run state dict
    rtrace,     \* research pipeline: the nodes completed in this run, in order
    rerr,       \* research pipeline: the error that aborted the run
    loop,       \* _write_post: position inside the batch loop
    log,        \* _write_post: the attempts and sleeps made for the current plan
    dbcalls,    \* the calls made on the database client, in order
    environ,    \* the environment variables that are set (to a non-empty value)
    clients,    \* the number of LinkedInClient objects constructed
    table,      \* the rows of the "article" table, oldest first
    parser,     \* LinkedInPostOutputParser under direct use: its input and results
    planner     \* the fallback plan of _plan_posts under direct use: its loop state

vars ==
    <<agent, ppc, pstate, ptrace, perr, published,
      rpc, rstate, rtrace, rerr, loop, log, dbcalls,
      environ, clients, table, parser, planner>>
envVars == <<agent, environ, parser, planner>>
linkedinVars == <<published, clients>>
dbVars == <<dbcalls, table>>
postVars == <<ppc, pstate, ptrace, perr, linkedinVars>>
researchVars == <<rpc, rstate, rtrace, rerr, dbVars>>

\* the class of the single-post agent that is running: the batch loop always
\* builds the one of agents/post_agent.py
PostClass == IF agent = "agents" THEN "agents" ELSE "post_agent"
PostEdges == IF PostClass = "agents" THEN LegacyEdges ELSE PostAgentEdges

\* ------------------------------------------- single-post pipeline: steps
\* variant: the run starts with the topic as its first turn, as the state
\* api.create_post builds does
post_initial_state_Seeded(topic) ==
    [messages |-> <<HumanMessage(topic)>>, topic |-> topic, next_step |-> "search"]

\* LinkedInPostAgent.run: the initial state of a run
post_initial_state(topic) ==
    [messages |-> <<>>, topic |-> topic, next_step |-> "search"]

\* _search_news: what the step returns when the search returned found
search_news(cls, state, found) ==
    IF cls = "agents"
    THEN [messages |-> state.messages, topic |-> state.topic,
          news_content |-> [raw_content |-> json_dumps(found)],
          next_step |-> "analyze"]
    ELSE [messages |-> state.messages, topic |-> state.topic,
          news_content |-> [raw_content |-> json_dumps(found)],
          selected_news |-> NoneDict, linkedin_post |-> None,
          next_step |-> "analyze"]

\* _analyze_news
analyze_news(cls, state, response) ==
    IF cls = "agents"
    THEN [messages |-> Append(state.messages, response),
          news_content |-> state.news_content, topic |-> state.topic,
          next_step |-> "select_news"]
    ELSE [messages |-> Append(state.messages, response),
          news_content |-> state.news_content, topic |-> state.topic,
          selected_news |-> NoneDict, linkedin_post |-> None,
          next_step |-> "select_news"]

\* _select_news, the try block: the index int() and the list lookup accept,
\* or 0 after ValueError / IndexError
most_relevant_index(news_items, content) ==
    IF content.isInt /\ InRange(news_items, content.value)
    THEN content.value
    ELSE 0

\* _select_news: the lookup of the chosen (or the fallback) item raises
\* IndexError
select_news_raises(news_items, content) ==
    ~InRange(news_items, most_relevant_index(news_items, content))

\* variant: the turns so far are replaced by the ranking response
select_news_OnlyResponse(cls, state, response) ==
    LET news_items == json_loads(state.news_content.raw_content)
        item == PyGet(news_items, most_relevant_index(news_items, response.content))
    IN  [messages |-> <<response>>,
         news_content |-> state.news_content, topic |-> state.topic,
         selected_news |-> [title |-> item.title, link |-> item.link,
                            snippet |-> item.snippet],
         linkedin_post |-> None,
         next_step |-> "generate_post"]

\* _select_news
select_news(cls, state, response) ==
    LET news_items == json_loads(state.news_content.raw_content)
        item == PyGet(news_items, most_relevant_index(news_items, response.content))
        selected == [title |-> item.title, link |-> item.link, snippet |-> item.snippet]
    IN  IF cls = "agents"
        THEN [messages |-> Append(state.messages, response),
              news_content |-> state.news_content, topic |-> state.topic,
              selected_news |-> selected, next_step |-> "generate_post"]
        ELSE [messages |-> Append(state.messages, response),
              news_content |-> state.news_content, topic |-> state.topic,
              selected_news |-> selected, linkedin_post |-> None,
              next_step |-> "generate_post"]

\* LinkedInPostOutputParser.parse(response.content) for the responses of
\* GenResponses, computed once
parse_response == [content \in GenResponses |-> parse(content)]

\* _generate_post: parse() returned None and None + str raises TypeError
generate_post_raises(response) == parse_response[response.content] = None

\* variant: one newline between the post and the link
generate_post_SingleNewline(state, response) ==
    [messages |-> Append(state.messages, response),
     linkedin_post |-> parse_response[response.content] \o <<"\n", state.selected_news.link>>,
     next_step |-> "post_to_linkedin"]

\* _generate_post
generate_post(state, response) ==
    [messages |-> Append(state.messages, response),
     linkedin_post |-> parse_response[response.content]
                       \o <<"\n", "\n", state.selected_news.link>>,
     next_step |-> "post_to_linkedin"]

\* _post_to_linkedin
post_to_linkedin(cls, state, post_response) ==
    IF cls = "agents"
    THEN [messages |-> state.messages, linkedin_post |-> state.linkedin_post,
          post_response |-> post_response, next_step |-> END]
    ELSE [messages |-> state.messages, news_content |-> state.news_content,
          topic |-> state.topic,
          selected_news |-> IF "selected_news" \in DOMAIN state
                            THEN state.selected_news ELSE NoneDict,
          linkedin_post |-> state.linkedin_post,
          post_response |-> post_response, next_step |-> END]

\* LinkedInClient.post_content wraps whatever the API raises
post_content_error(e) ==
    <<"F","a","i","l","e","d"," ","t","o"," ","p","o","s","t"," ","t","o",
      " ","L","i","n","k","e","d","I","n",":"," ">> \o e

\* ---------------------------------------- single-post pipeline: sequencer
\* a node returned upd: merge it and route along the node's edge
PostAdvance(node, upd) ==
    /\ Len(ptrace) < MaxTrace
    /\ pstate' = Merge(pstate, upd)
    /\ ppc' = NextNode(PostEdges, node)
    /\ ptrace' = Append(ptrace, node)
    /\ UNCHANGED perr

\* a node raised: the error leaves workflow.invoke and run()
PostAbort(err) ==
    /\ ppc' = "failed"
    /\ perr' = err
    /\ UNCHANGED <<pstate, ptrace>>

SearchNews ==
    /\ ppc = "search"
    /\ \/ \E m \in 0..MaxFound : PostAdvance("search", search_news(PostClass, pstate, Hits(m)))
       \/ \E e \in ExternalErrors : PostAbort(Error(e, "search", "external"))
    /\ UNCHANGED <<envVars, linkedinVars, researchVars, loop, log>>

AnalyzeNews ==
    /\ ppc = "analyze"
    /\ \/ PostAdvance("analyze", analyze_news(PostClass, pstate, AIMessage(AnalysisText)))
       \/ \E e \in ExternalErrors : PostAbort(Error(e, "analyze", "external"))
    /\ UNCHANGED <<envVars, linkedinVars, researchVars, loop, log>>

PostSelectNews ==
    /\ ppc = "select_news"
    /\ \/ \E c \in RankResponses :
            LET news_items == json_loads(pstate.news_content.raw_content)
            IN  IF select_news_raises(news_items, c)
                THEN PostAbort(Error(IndexErrorText, "select_news", "step"))
                ELSE PostAdvance("select_news", select_news(PostClass, pstate, AIMessage(c)))
       \/ \E e \in ExternalErrors : PostAbort(Error(e, "select_news", "external"))
    /\ UNCHANGED <<envVars, linkedinVars, researchVars, loop, log>>

GeneratePost ==
    /\ ppc = "generate_post"
    /\ \/ \E c \in GenResponses :
            IF generate_post_raises(AIMessage(c))
            THEN PostAbort(Error(TypeErrorNoneText, "generate_post", "step"))
            ELSE PostAdvance("generate_post", generate_post(pstate, AIMessage(c)))
       \/ \E e \in ExternalErrors : PostAbort(Error(e, "generate_post", "external"))
    /\ UNCHANGED <<envVars, linkedinVars, researchVars, loop, log>>

PostToLinkedin ==
    /\ ppc = "post_to_linkedin"
    /\ IF "LINKEDIN_ACCESS_TOKEN" \notin environ
       THEN \* os.getenv returns None
            /\ PostAbort(Error(TokenMissingText, "post_to_linkedin", "step"))
            /\ UNCHANGED <<published, clients>>
       ELSE /\ clients' = clients + 1
            /\ \/ \* LinkedInClient() raises on its /userinfo request
                  /\ \E e \in ExternalErrors :
                        PostAbort(Error(e, "post_to_linkedin", "external"))
                  /\ UNCHANGED published
               \/ \* post_content() raises
                  /\ \E e \in ExternalErrors :
                        PostAbort(Error(post_content_error(e), "post_to_linkedin", "external"))
                  /\ UNCHANGED published
               \/ /\ PostAdvance("post_to_linkedin",
                                 post_to_linkedin(PostClass, pstate,
                                                  "https://www.linkedin.com/feed/update/1"))
                  /\ published' = Append(published, pstate.linkedin_post)
    /\ UNCHANGED <<envVars, researchVars, loop, log>>

\* LinkedInPostAgent.run(topic), called by a user of the class
RunPost ==
    /\ agent \in {"post_agent", "agents"}
    /\ ppc = "idle"
    /\ ppc' = "search"
    /\ pstate' = post_initial_state(Str("quantum computing"))
    /\ ptrace' = <<>>
    /\ perr' = NoError
    /\ UNCHANGED <<envVars, linkedinVars, researchVars, loop, log>>

\* --------------------------------------------- research pipeline: inputs
\* a response of the selection or planning prompt: the JSON text it carries
\* and how the text is wrapped: bare ("none"), in a ```json fence
\* ("json_fence") or in a fence without the json tag ("plain_fence")
Response(wrapper, kind, value) == [wrapper |-> wrapper, kind |-> kind, value |-> value]

\* re.search(r'```json\n(.*?)\n```') followed by json.loads: the kind of
\* JSON value the text parses to, "garbage" when json.loads raises
\* JSONDecodeError (a fence the pattern does not match stays in the text)
json_kind(content) ==
    IF content.wrapper = "plain_fence" THEN "garbage" ELSE content.kind

\* the selection responses for a candidate list of length n
SelectResponses(n) ==
    { Response("none", "garbage", <<>>),
      Response("json_fence", "list", <<0>>),
      Response("plain_fence", "list", <<0>>),
      Response("none", "list", <<1, 0>>),
      Response("none", "list", <<n, -1>>),
      Response("none", "list", <<-(n + 1)>>),
      Response("none", "scalar", <<>>) }

\* a planned post as the planning prompt asks for it
PlanItem(day, article_index) ==
    [day |-> day, article_index |-> article_index, reason |-> "reason"]

\* the planning responses for n selected articles; one of them is an entry
\* without the 'reason' key
PlanResponses(n) ==
    { Response("none", "garbage", <<>>),
      Response("json_fence", "list", <<PlanItem("Monday", 0)>>),
      Response("none", "list", <<PlanItem("Friday", n - 1), PlanItem("Monday", 0)>>),
      Response("none", "list", <<PlanItem("Monday", n)>>),
      Response("none", "list", <<>>),
      Response("none", "list", <<[day |-> "Monday", article_index |-> 0]>>),
      Response("none", "scalar", <<>>) }

\* ---------------------------------------------- research pipeline: steps
\* LinkedInResearchAgent.run: the initial state of a run
research_initial_state == [messages |-> <<>>, next_step |-> "scrape"]

\* what select_news_prompt.format / plan_post_prompt.format contribute to
\* the messages list (format() yields one string, which the list display
\* unpacks; the model keeps three pieces of it)
prompt_messages(name, content) ==
    <<HumanMessage("researcher"), HumanMessage(content), HumanMessage(name)>>

\* _scrape_techcrunch: request failures are caught per URL
scrape_techcrunch(state, all_articles) ==
    [messages |-> state.messages,
     news_content |-> [raw_content |-> json_dumps(all_articles)],
     next_step |-> "select_news"]

\* _select_news (research), the list comprehension
\* [news_items_list[idx] for idx in selected_indices if idx < len(...)]
RECURSIVE pick_selected(_, _)
pick_selected(news_items_list, selected_indices) ==
    IF selected_indices = <<>> THEN <<>>
    ELSE IF Head(selected_indices) < Len(news_items_list)
         THEN <<PyGet(news_items_list, Head(selected_indices))>>
              \o pick_selected(news_items_list, Tail(selected_indices))
         ELSE pick_selected(news_items_list, Tail(selected_indices))

\* _select_news (research): the try block raises one of the caught errors
\* (JSONDecodeError, or IndexError for an index below -len)
research_select_falls_back(news_items_list, content) ==
    \/ json_kind(content) = "garbage"
    \/ /\ json_kind(content) = "list"
       /\ \E k \in 1..Len(content.value) :
            /\ content.value[k] < Len(news_items_list)
            /\ ~InRange(news_items_list, content.value[k])

\* _select_news (research): iterating a JSON value that is not a list raises
\* TypeError, which the except clause does not name
research_select_raises(content) == json_kind(content) = "scalar"

\* _select_news (research)
research_select_news(state, response) ==
    LET news_items_list == json_loads(state.news_content.raw_content)
        selected_news_items ==
            IF research_select_falls_back(news_items_list, response.content)
            THEN Take(news_items_list, Min(FallbackSelect, Len(news_items_list)))
            ELSE pick_selected(news_items_list, response.content.value)
    IN  [messages |-> state.messages
                      \o prompt_messages("select", state.news_content.raw_content)
                      \o <<response>>,
         news_content |-> state.news_content,
         selected_news |-> selected_news_items,
         next_step |-> "plan_posts"]

days ==
    <<"Monday", "Tuesday", "Wednesday", "Thursday", "Friday", "Saturday", "Sunday">>

\* _plan_posts, the fallback: the inner loop for one day, count iterations
\* variant: article_index is not advanced
RECURSIVE plan_day_SameArticle(_, _, _, _, _)
plan_day_SameArticle(selected_news, day, count, article_index, posting_plans) ==
    IF count <= 0 THEN [posting_plans |-> posting_plans, article_index |-> article_index]
    ELSE IF article_index < Len(selected_news)
         THEN plan_day_SameArticle(selected_news, day, count - 1, article_index,
                       Append(posting_plans,
                              [day |-> day, article_index |-> article_index,
                               title |-> PyGet(selected_news, article_index).title,
                               link |-> PyGet(selected_news, article_index).link,
                               snippet |-> PyGet(selected_news, article_index).snippet,
                               reason |-> "Relevant article for " \o day]))
         ELSE plan_day_SameArticle(selected_news, day, count - 1, article_index,
                                   posting_plans)

RECURSIVE plan_day(_, _, _, _, _)
plan_day(selected_news, day, count, article_index, posting_plans) ==
    IF count <= 0 THEN [posting_plans |-> posting_plans, article_index |-> article_index]
    ELSE IF article_index < Len(selected_news)
         THEN plan_day(selected_news, day, count - 1, article_index + 1,
                       Append(posting_plans,
                              [day |-> day, article_index |-> article_index,
                               title |-> PyGet(selected_news, article_index).title,
                               link |-> PyGet(selected_news, article_index).link,
                               snippet |-> PyGet(selected_news, article_index).snippet,
                               reason |-> "Relevant article for " \o day]))
         ELSE plan_day(selected_news, day, count - 1, article_index, posting_plans)

\* _plan_posts, the fallback: the loop over the days from day number d
RECURSIVE fallback_plan(_, _, _, _)
fallback_plan(selected_news, d, article_index, posting_plans) ==
    IF d > Len(days) THEN posting_plans
    ELSE LET r == plan_day(selected_news, days[d],
                           Min(PostsPerDay, Len(selected_news) - article_index),
                           article_index, posting_plans)
         IN  fallback_plan(selected_news, d + 1, r.article_index, r.posting_plans)

\* _plan_posts, the try block: each parsed plan gets the article's fields
parsed_plan(selected_news, plan) ==
    Merge(plan, [title |-> PyGet(selected_news, plan.article_index).title,
                 link |-> PyGet(selected_news, plan.article_index).link,
                 snippet |-> PyGet(selected_news, plan.article_index).snippet])

\* _plan_posts: the try block raises an error the except clause does not
\* name: TypeError for a JSON value that is not a list, IndexError for an
\* article_index outside selected_news
plan_posts_raises(selected_news, content) ==
    \/ json_kind(content) = "scalar"
    \/ /\ json_kind(content) = "list"
       /\ \E k \in 1..Len(content.value) :
            ~InRange(selected_news, content.value[k].article_index)

\* _plan_posts
plan_posts(state, response) ==
    LET selected_news == state.selected_news
        posting_plans ==
            IF json_kind(response.content) = "garbage"
            THEN fallback_plan(selected_news, 1, 0, <<>>)
            ELSE [k \in 1..Len(response.content.value) |->
                    parsed_plan(selected_news, response.content.value[k])]
    IN  [messages |-> state.messages
                      \o prompt_messages("plan", selected_news)
                      \o <<response>>,
         news_content |-> state.news_content,
         selected_news |-> selected_news,
         posting_plans |-> posting_plans,
         next_step |-> "save_to_database"]

\* ------------------------------------------------ the batch write loop
\* not inside _write_post
LoopIdle == [phase |-> "idle", i |-> 0, attempt |-> 0, posting_plans |-> <<>>]

\* variant: retries whatever the error says
ShouldRetry_AnyError(e, attempt) == attempt < max_retries - 1

\* variant: also "retries" after the last attempt
ShouldRetry_NoCap(e, attempt) ==
    LET lowered == Lower(e)
    IN  Contains(lowered, QuotaWord)

\* _write_post, the except clause: sleep and try again
ShouldRetry(e, attempt) ==
    LET lowered == Lower(e)
    IN  Contains(lowered, QuotaWord) /\ attempt < max_retries - 1

\* _write_post, the state handed to post_agent.run for a plan
post_agent_state(plan) ==
    [messages |-> <<>>, topic |-> plan.title, next_step |-> "search"]

\* variant: keeps the post of the run out of the plan
record_success_Dropped(plan, post_result) == Merge(plan, [post_content |-> None])

\* variant: the entry also takes the title of the news the run selected
record_success_Retitled(plan, post_result) ==
    Merge(plan, [post_content |-> post_result.linkedin_post,
                 title |-> post_result.selected_news.title])

\* _write_post, the try block succeeded
record_success(plan, post_result) ==
    Merge(plan, [post_content |-> post_result.linkedin_post])

\* variant: a failed entry is left without post_content
record_failure_Unrecorded(plan) == plan

\* _write_post, the else branch of the except clause
record_failure(plan) == Merge(plan, [post_content |-> None])

\* _write_post
write_post(state, posting_plans) ==
    [messages |-> state.messages,
     news_content |-> state.news_content,
     selected_news |-> state.selected_news,
     posting_plans |-> posting_plans,
     next_step |-> "save_to_database"]

\* _save_to_database: the rows handed to insert()
articles_to_save(posting_plans) ==
    [k \in 1..Len(posting_plans) |->
        [title |-> posting_plans[k].title,
         link |-> posting_plans[k].link,
         day |-> posting_plans[k].day,
         reason |-> posting_plans[k].reason,
         snippet |-> posting_plans[k].snippet,
         post_content |-> posting_plans[k].post_content]]

\* _save_to_database: the keys of a plan the rows are built from
SavedFields == {"title", "link", "day", "reason", "snippet", "post_content"}

\* _save_to_database: building the rows raises KeyError
save_raises(posting_plans) ==
    \E k \in 1..Len(posting_plans) : ~(SavedFields \subseteq DOMAIN posting_plans[k])

\* str(KeyError(key))
KeyErrorText(key) == <<"'", key, "'">>

\* _save_to_database: the key the first KeyError names (the rows are built
\* plan by plan, each in the order title, link, day, reason, snippet,
\* post_content)
save_missing_key(posting_plans) ==
    LET k == MinOf({j \in 1..Len(posting_plans) :
                       ~(SavedFields \subseteq DOMAIN posting_plans[j])})
        order == <<"title", "link", "day", "reason", "snippet", "post_content">>
    IN  order[MinOf({j \in 1..Len(order) : order[j] \notin DOMAIN posting_plans[k]})]

\* the expired column of a row: NULL or true
SqlNull == "null"
SqlTrue == "true"

\* table("article").update({"expired": True}).is_("expired", None)
db_expire(rows) ==
    [k \in 1..Len(rows) |->
        IF rows[k].expired = SqlNull THEN [rows[k] EXCEPT !.expired = SqlTrue] ELSE rows[k]]

\* variant: an insert that skips the rows the table already holds
db_insert_Deduplicating(rows, new_rows) ==
    rows \o SelectSeq([k \in 1..Len(new_rows) |-> Merge(new_rows[k], [expired |-> SqlNull])],
                      LAMBDA r : \A j \in 1..Len(rows) : Merge(rows[j], [expired |-> SqlNull]) # r)

\* table("article").insert(articles_to_save): the rows do not set expired
db_insert(rows, new_rows) ==
    rows \o [k \in 1..Len(new_rows) |-> Merge(new_rows[k], [expired |-> SqlNull])]

\* a call on the database client and whether it succeeded
DbCall(op, ok, rows) == [op |-> op, ok |-> ok, rows |-> rows]

\* the table after the calls: a call that raised changed nothing
RECURSIVE db_apply(_, _)
db_apply(rows, calls) ==
    IF calls = <<>> THEN rows
    ELSE LET c == Head(calls)
             after == IF ~c.ok THEN rows
                      ELSE IF c.op = "update" THEN db_expire(rows)
                      ELSE db_insert(rows, c.rows)
         IN  db_apply(after, Tail(calls))

\* variant: the insert is given up when the update raised
save_calls_StopOnFailure(expired, inserted, posting_plans) ==
    IF expired
    THEN << DbCall("update", expired, <<>>),
            DbCall("insert", inserted, articles_to_save(posting_plans)) >>
    ELSE << DbCall("update", expired, <<>>) >>

\* _save_to_database: the calls it makes, each in its own try block
save_calls(expired, inserted, posting_plans) ==
    << DbCall("update", expired, <<>>),
       DbCall("insert", inserted, articles_to_save(posting_plans)) >>

\* _save_to_database
save_to_database(state) ==
    [messages |-> state.messages,
     news_content |-> state.news_content,
     selected_news |-> state.selected_news,
     posting_plans |-> state.posting_plans,
     next_step |-> END]

\* ------------------------------------------ research pipeline: sequencer
ResearchAdvance(node, upd) ==
    /\ Len(rtrace) < MaxTrace
    /\ rstate' = Merge(rstate, upd)
    /\ rpc' = NextNode(ResearchEdges, node)
    /\ rtrace' = Append(rtrace, node)
    /\ UNCHANGED rerr

ResearchAbort(err) ==
    /\ rpc' = "failed"
    /\ rerr' = err
    /\ UNCHANGED <<rstate, rtrace>>

\* LinkedInResearchAgent.run(), called by research_post
RunResearch ==
    /\ agent = "research_agent"
    /\ rpc = "idle"
    /\ rpc' = "scrape"
    /\ rstate' = research_initial_state
    /\ rtrace' = <<>>
    /\ rerr' = NoError
    /\ UNCHANGED <<envVars, postVars, loop, log, dbVars>>

ScrapeTechcrunch ==
    /\ rpc = "scrape"
    /\ \E n \in 0..MaxScraped :
          ResearchAdvance("scrape", scrape_techcrunch(rstate, ScrapedList(n)))
    /\ UNCHANGED <<envVars, postVars, loop, log, dbVars>>

ResearchSelectNews ==
    /\ rpc = "select_news"
    /\ \/ \E c \in SelectResponses(Len(json_loads(rstate.news_content.raw_content))) :
            IF research_select_raises(c)
            THEN ResearchAbort(Error(TypeErrorShapeText, "select_news", "step"))
            ELSE ResearchAdvance("select_news", research_select_news(rstate, AIMessage(c)))
       \/ \E e \in ExternalErrors : ResearchAbort(Error(e, "select_news", "external"))
    /\ UNCHANGED <<envVars, postVars, loop, log, dbVars>>

PlanPosts ==
    /\ rpc = "plan_posts"
    /\ \/ \E c \in PlanResponses(Len(rstate.selected_news)) :
            IF plan_posts_raises(rstate.selected_news, c)
            THEN ResearchAbort(Error(IF json_kind(c) = "scalar"
                                     THEN TypeErrorShapeText ELSE IndexErrorText,
                                     "plan_posts", "step"))
            ELSE ResearchAdvance("plan_posts", plan_posts(rstate, AIMessage(c)))
       \/ \E e \in ExternalErrors : ResearchAbort(Error(e, "plan_posts", "external"))
    /\ UNCHANGED <<envVars, postVars, loop, log, dbVars>>

\* the result (or the exception) of post_agent.run has been consumed: the
\* run's state is garbage
PostDiscard ==
    /\ ppc' = "idle"
    /\ pstate' = post_initial_state(Str(""))
    /\ ptrace' = <<>>
    /\ perr' = NoError

\* _write_post is entered: posting_plans = state["posting_plans"]
WriteBegin ==
    /\ rpc = "write_post"
    /\ loop.phase = "idle"
    /\ loop' = [phase |-> "head", i |-> 0, attempt |-> 0,
                posting_plans |-> rstate.posting_plans]
    /\ log' = <<>>
    /\ UNCHANGED <<envVars, postVars, researchVars>>

\* for plan in posting_plans: the next plan, if there is one
WriteNextPlan ==
    /\ rpc = "write_post"
    /\ loop.phase = "head"
    /\ loop.i < Len(loop.posting_plans)
    /\ loop' = [loop EXCEPT !.phase = "attempt", !.i = loop.i + 1, !.attempt = 0]
    /\ log' = <<>>
    /\ UNCHANGED <<envVars, postVars, researchVars>>

\* post_agent.run(post_agent_state) is called
WriteAttempt ==
    /\ rpc = "write_post"
    /\ loop.phase = "attempt"
    /\ loop' = [loop EXCEPT !.phase = "running"]
    /\ ppc' = "search"
    /\ pstate' = post_initial_state(post_agent_state(loop.posting_plans[loop.i]))
    /\ ptrace' = <<>>
    /\ perr' = NoError
    /\ UNCHANGED <<envVars, linkedinVars, researchVars, log>>

\* post_agent.run returned: record the post and leave the retry loop
WriteSuccess ==
    /\ rpc = "write_post"
    /\ loop.phase = "running"
    /\ ppc = "done"
    /\ loop' = [loop EXCEPT
                  !.phase = "head",
                  !.posting_plans[loop.i] = record_success(@, pstate)]
    /\ log' = Append(log, [ev |-> "attempt", raised |-> FALSE, text |-> <<>>,
                            post |-> pstate.linkedin_post])
    /\ PostDiscard
    /\ UNCHANGED <<envVars, linkedinVars, researchVars>>

\* post_agent.run raised: the except clause
WriteExcept ==
    /\ rpc = "write_post"
    /\ loop.phase = "running"
    /\ ppc = "failed"
    /\ IF ShouldRetry(perr.text, loop.attempt)
       THEN loop' = [loop EXCEPT !.phase = "sleep"]
       ELSE loop' = [loop EXCEPT
                       !.phase = "head",
                       !.posting_plans[loop.i] = record_failure(@)]
    /\ log' = Append(log, [ev |-> "attempt", raised |-> TRUE, text |-> perr.text,
                            post |-> None])
    /\ PostDiscard
    /\ UNCHANGED <<envVars, linkedinVars, researchVars>>

\* time.sleep(base_delay) returns; for attempt in range(max_retries) goes on
\* or is exhausted
WriteSleep ==
    /\ rpc = "write_post"
    /\ loop.phase = "sleep"
    /\ loop' = [loop EXCEPT
                  !.attempt = loop.attempt + 1,
                  !.phase = IF loop.attempt + 1 < max_retries THEN "attempt" ELSE "head"]
    /\ log' = Append(log, [ev |-> "sleep", secs |-> base_delay])
    /\ UNCHANGED <<envVars, postVars, researchVars>>

\* the plans are exhausted: _write_post returns
WriteReturn ==
    /\ rpc = "write_post"
    /\ loop.phase = "head"
    /\ loop.i >= Len(loop.posting_plans)
    /\ ResearchAdvance("write_post", write_post(rstate, loop.posting_plans))
    /\ loop' = LoopIdle
    /\ log' = <<>>
    /\ UNCHANGED <<envVars, postVars, dbVars>>

SaveToDatabase ==
    /\ rpc = "save_to_database"
    /\ \E expired, inserted \in BOOLEAN :
          IF save_raises(rstate.posting_plans)
          THEN /\ ResearchAbort(Error(KeyErrorText(save_missing_key(rstate.posting_plans)),
                                      "save_to_database", "step"))
               /\ dbcalls' = Append(dbcalls, DbCall("update", expired, <<>>))
               /\ table' = db_apply(table, <<DbCall("update", expired, <<>>)>>)
          ELSE /\ ResearchAdvance("save_to_database", save_to_database(rstate))
               /\ dbcalls' = dbcalls \o save_calls(expired, inserted, rstate.posting_plans)
               /\ table' = db_apply(table, save_calls(expired, inserted, rstate.posting_plans))
    /\ UNCHANGED <<envVars, postVars, loop, log>>

\* ------------------------------------------- the parser under direct use
\* the characters of the texts handed to the parser on its own
ParserChars == {" ", "\n", "a", "*", "_", "-", "1", "."}
Pieces == {start_marker, end_marker} \cup {<<c>> : c \in ParserChars}

\* "".join(pieces)
RECURSIVE Join(_)
Join(pieces) == IF pieces = <<>> THEN <<>> ELSE Head(pieces) \o Join(Tail(pieces))

\* Markdown texts longer than MaxPieces pieces: the visible texts and what
\* follows the marked-up span
Words == { <<"a">>, <<"h","e","l","l","o">>, <<"a"," ","b">> }
Rests == { <<>>, <<" ","w","o","r","l","d">> }
Urls == { <<"u","r","l">>, <<"h","t","t","p",":","/","/","x">> }

\* **w**, *w*, _w_ and [w](url)
Bold(w) == <<"*", "*">> \o w \o <<"*", "*">>
Star(w) == <<"*">> \o w \o <<"*">>
Underscore(w) == <<"_">> \o w \o <<"_">>
Link(w, url) == <<"[">> \o w \o <<"]", "(">> \o url \o <<")">>

EmphasisExamples ==
    {m \o rest : m \in UNION {{Bold(w), Star(w), Underscore(w)} : w \in Words},
                 rest \in Rests}
LinkExamples == {Link(w, url) \o rest : w \in Words, url \in Urls, rest \in Rests}

\* emphasis inside emphasis
NestedExamples ==
    { <<"*","*","a"," ","*","b","*"," ","c","*","*">>,
      <<"*","a"," ","*","*","b","*","*"," ","c","*">>,
      <<"*","*","*","a","*","*","*">>,
      <<"*","*","a"," ","_","b","_"," ","c","*","*">> }

\* hashtags, one of them next to punctuation
HashtagExamples ==
    { <<"#","a","i",","," ","r","o","c","k","s">>,
      <<"g","o"," ","#","a","i",".">>,
      <<"#","a"," ","#","b">> }

\* k newlines
Newlines(k) == [i \in 1..k |-> "\n"]
\* two lines with k blank lines between them
BlankLineRun(k) == <<"a">> \o Newlines(k + 1) \o <<"a">>
BlankLineExamples == {BlankLineRun(k) : k \in 0..MaxBlankLines}

Examples ==
    EmphasisExamples \cup LinkExamples \cup NestedExamples \cup HashtagExamples
        \cup BlankLineExamples

ParserInputs ==
    {Join(pieces) : pieces \in UNION {[1..k -> Pieces] : k \in 0..MaxPieces}}
        \cup Examples

\* LinkedInPostOutputParser.parse(text) is called
ParseText ==
    /\ parser.pc = "start"
    /\ parser' = [parser EXCEPT !.pc = "parsed", !.parsed = parse(parser.text)]
    /\ UNCHANGED <<agent, environ, planner, postVars, researchVars, loop, log>>

\* LinkedInPostOutputParser._remove_markdown is called, on the text first
\* and then on what it returned
CleanText ==
    /\ parser.pc \in {"parsed", "cleaned"}
    /\ parser' =
          [parser EXCEPT
             !.pc = IF parser.pc = "parsed" THEN "cleaned" ELSE "recleaned",
             !.cleanings =
                Append(@, remove_markdown(IF @ = <<>> THEN parser.text ELSE @[Len(@)]))]
    /\ UNCHANGED <<agent, environ, planner, postVars, researchVars, loop, log>>

\* ------------------------------------- the fallback plan under direct use
\* the fallback branch of _plan_posts is not in direct use
PlannerIdle ==
    [pc |-> "idle", selected_news |-> <<>>, d |-> 0, article_index |-> 0,
     posting_plans |-> <<>>]

\* for day in days: one iteration of the outer loop, with its inner loop
FallbackDay ==
    /\ planner.pc = "day"
    /\ LET r == plan_day(planner.selected_news, days[planner.d],
                         Min(PostsPerDay,
                             Len(planner.selected_news) - planner.article_index),
                         planner.article_index, planner.posting_plans)
       IN  planner' = [planner EXCEPT
                         !.pc = IF planner.d = Len(days) THEN "planned" ELSE "day",
                         !.d = planner.d + 1,
                         !.article_index = r.article_index,
                         !.posting_plans = r.posting_plans]
    /\ UNCHANGED <<agent, environ, parser, postVars, researchVars, loop, log>>

\* ---------------------------------------------------------- specification
\* the parser is not in direct use
ParserIdle == [pc |-> "idle", text |-> <<>>, parsed |-> <<>>, cleanings |-> <<>>]

\* the rows an earlier research run left in the table: one article was
\* scraped, the plan was the fallback plan and the post was not generated
PreviousBatch ==
    LET plans == fallback_plan(ScrapedList(1), 1, 0, <<>>)
    IN  db_insert(<<>>, articles_to_save([k \in 1..Len(plans) |-> record_failure(plans[k])]))

\* no run has started
Idle ==
    /\ agent \in {"post_agent", "agents", "research_agent"}
    /\ ppc = "idle"
    /\ pstate = post_initial_state(Str(""))
    /\ ptrace = <<>>
    /\ perr = NoError
    /\ published = <<>>
    /\ clients = 0
    /\ rpc = "idle"
    /\ rstate = research_initial_state
    /\ rtrace = <<>>
    /\ rerr = NoError
    /\ loop = LoopIdle
    /\ log = <<>>
    /\ dbcalls = <<>>

\* a host set up as the README asks (the credential is in .env), on an
\* empty article table
Init ==
    /\ Idle
    /\ environ = {"LINKEDIN_ACCESS_TOKEN"}
    /\ table = <<>>
    /\ parser = ParserIdle
    /\ planner = PlannerIdle

\* any host: the credential set or not, the table empty or holding the
\* rows of an earlier run
EnvInit ==
    /\ Idle
    /\ environ \in SUBSET {"LINKEDIN_ACCESS_TOKEN"}
    /\ table \in {<<>>, PreviousBatch}
    /\ parser = ParserIdle
    /\ planner = PlannerIdle

Next ==
    \/ RunPost
    \/ SearchNews
    \/ AnalyzeNews
    \/ PostSelectNews
    \/ GeneratePost
    \/ PostToLinkedin
    \/ RunResearch
    \/ ScrapeTechcrunch
    \/ ResearchSelectNews
    \/ PlanPosts
    \/ WriteBegin
    \/ WriteNextPlan
    \/ WriteAttempt
    \/ WriteSuccess
    \/ WriteExcept
    \/ WriteSleep
    \/ WriteReturn
    \/ SaveToDatabase

Spec == Init /\ [][Next]_vars

\* every call returns or raises, so a step that can run does run
FairSpec == Spec /\ WF_vars(Next)

\* the same program on any host
EnvSpec == EnvInit /\ [][Next]_vars

\* the parser called on its own with a text of ParserInputs
ParserInit ==
    /\ Idle
    /\ agent = "post_agent"
    /\ environ = {"LINKEDIN_ACCESS_TOKEN"}
    /\ table = <<>>
    /\ \E text \in ParserInputs : parser = [ParserIdle EXCEPT !.pc = "start", !.text = text]
    /\ planner = PlannerIdle

ParserNext == ParseText \/ CleanText

ParserSpec == ParserInit /\ [][ParserNext]_vars

\* the fallback branch of _plan_posts entered with n selected articles
PlannerInit ==
    /\ Idle
    /\ agent = "research_agent"
    /\ environ = {"LINKEDIN_ACCESS_TOKEN"}
    /\ table = <<>>
    /\ parser = ParserIdle
    /\ \E n \in 0..MaxSelected :
          planner = [PlannerIdle EXCEPT
                       !.pc = "day", !.selected_news = ScrapedList(n), !.d = 1]

PlannerNext == FallbackDay

PlannerSpec == PlannerInit /\ [][PlannerNext]_vars

\* ================================================================ claims
\* the attempts among the events logged for the current plan
Attempts(events) == SelectSeq(events, LAMBDA ev : ev.ev = "attempt")
\* the sleeps among them
Sleeps(events) == SelectSeq(events, LAMBDA ev : ev.ev = "sleep")
\* the error texts of this model that contain "quota" in some letter case
QuotaTexts == {ErrQuotaLower, ErrQuotaMixed}
\* the attempt raised an error that mentions quota
QuotaFailure(a) == a.raised /\ a.text \in QuotaTexts
\* the loop is done with plan number loop.i
PlanFinished == rpc = "write_post" /\ loop.phase = "head" /\ loop.i >= 1
\* an invocation of the single-post pipeline is about to start or under way
AttemptInProgress == rpc = "write_post" /\ loop.phase \in {"attempt", "running"}

\* C1: in the batch write loop the single-post pipeline is invoked at least
\* once and at most 3 times per plan entry, and every attempt but the last
\* raised an error whose text contains "quota" in some letter case: nothing
\* is attempted again after a success or after an error without "quota".
C1_BoundedQuotaRetry ==
    rpc = "write_post" /\ loop.phase # "idle" =>
        LET a == Attempts(log)
        IN  /\ Len(a) + (IF AttemptInProgress THEN 1 ELSE 0) <= 3
            /\ \A k \in 1..(Len(a) - 1) : QuotaFailure(a[k])
            /\ AttemptInProgress /\ Len(a) >= 1 => QuotaFailure(a[Len(a)])
            /\ PlanFinished => Len(a) >= 1

\* C1 witness: a plan that took three attempts, the first failing with the
\* mixed-case quota text, the third with an error that has no "quota"
C1_Witness ==
    /\ PlanFinished
    /\ Len(Attempts(log)) = 3
    /\ Attempts(log)[1].text = ErrQuotaMixed
    /\ Attempts(log)[3].text = ErrTimeout

\* "quota exceeded" was raised by exactly the first n attempts logged
QuotaExceededTimes(a, n) ==
    /\ Len(a) >= n
    /\ \A k \in 1..n : a[k].raised /\ a[k].text = ErrQuotaLower

\* C2: when the pipeline raises "quota exceeded" twice and then succeeds, the
\* entry's post_content is the post the third attempt returned and the loop
\* has not raised; when it raises "quota exceeded" three times, the entry's
\* post_content is None after exactly 3 attempts and the loop goes on with
\* the next entry (or returns when there is none).
C2_RetryOutcome ==
    /\ [](PlanFinished =>
            LET a == Attempts(log)
                plan == loop.posting_plans[loop.i]
            IN  /\ Len(a) = 3 /\ QuotaExceededTimes(a, 2) /\ ~a[3].raised =>
                     /\ "post_content" \in DOMAIN plan
                     /\ plan.post_content = a[3].post
                     /\ plan.post_content # None
                /\ QuotaExceededTimes(a, 3) =>
                     /\ Len(a) = 3
                     /\ "post_content" \in DOMAIN plan
                     /\ plan.post_content = None)
    /\ [][PlanFinished /\ QuotaExceededTimes(Attempts(log), 3) =>
            \/ /\ loop.i < Len(loop.posting_plans)
               /\ loop'.phase = "attempt" /\ loop'.i = loop.i + 1
            \/ /\ loop.i = Len(loop.posting_plans)
               /\ rpc' = "save_to_database"]_vars

\* C2 witness: the second entry got its post on the third attempt after two
\* "quota exceeded" errors, the first entry having been recorded as None
C2_Witness ==
    /\ PlanFinished
    /\ loop.i = 2
    /\ loop.posting_plans[1].post_content = None
    /\ Len(Attempts(log)) = 3
    /\ QuotaExceededTimes(Attempts(log), 2)
    /\ ~Attempts(log)[3].raised
    /\ loop.posting_plans[2].post_content = Attempts(log)[3].post

\* every entry of plans has post_content (a post or None)
AllRecorded(plans) ==
    \A k \in 1..Len(plans) : "post_content" \in DOMAIN plans[k]

\* C3: _write_post never raises, whatever the single-post pipeline raises; it
\* terminates, and when it has returned every plan entry has post_content
\* set, to a post or to None.
C3_BatchSurvivesFailures ==
    /\ [](/\ rerr.step # "write_post"
          /\ PlanFinished => AllRecorded(SubSeq(loop.posting_plans, 1, loop.i))
          /\ rpc \in {"save_to_database", "done"} =>
                /\ "write_post" = rtrace[4]
                /\ AllRecorded(rstate.posting_plans))
    /\ (rpc = "write_post") ~> (rpc = "save_to_database")

\* C3 witness: the loop returned with two entries, the first failed (None),
\* the second generated
C3_Witness ==
    /\ rpc = "save_to_database"
    /\ Len(rstate.posting_plans) = 2
    /\ rstate.posting_plans[1].post_content = None
    /\ rstate.posting_plans[2].post_content # None

\* C4: a sleep of 60 seconds happens exactly between two consecutive attempts
\* for the same plan entry: the events of an entry alternate attempt, sleep,
\* attempt, ..., starting with an attempt and, once the entry is finished,
\* ending with one; so there are at most 2 sleeps per entry and none between
\* entries.
C4_SleepBetweenAttempts ==
    rpc = "write_post" /\ loop.phase # "idle" =>
        /\ \A k \in 1..Len(log) :
              /\ log[k].ev = (IF k % 2 = 1 THEN "attempt" ELSE "sleep")
              /\ log[k].ev = "sleep" => log[k].secs = 60
        /\ Len(Sleeps(log)) <= 2
        /\ PlanFinished => log[Len(log)].ev = "attempt"
        /\ loop.phase = "sleep" => log[Len(log)].ev = "attempt"
        /\ AttemptInProgress /\ log # <<>> => log[Len(log)].ev = "sleep"
        /\ AttemptInProgress => Len(Sleeps(log)) = loop.attempt

\* C4 witness: an entry finished after two sleeps
C4_Witness ==
    /\ PlanFinished
    /\ Len(log) = 5
    /\ Len(Sleeps(log)) = 2

\* the pc value the sequencer shows for a next_step value
Routed(next_step) == IF next_step = END THEN "done" ELSE next_step

\* C5: a run of the single-post pipeline that reaches done has executed
\* search, analyze, select_news, generate_post, post_to_linkedin, in this
\* order and nothing else.
C5_PostOrder ==
    ppc = "done" =>
        ptrace = <<"search", "analyze", "select_news", "generate_post", "post_to_linkedin">>

ResearchOrder ==
    <<"scrape", "select_news", "plan_posts", "write_post", "save_to_database">>

\* C6: the research pipeline executes scrape, select_news, plan_posts,
\* write_post, save_to_database in this order: the steps completed are
\* always a prefix of this list, the step being executed is the next one of
\* the list, and done is reached only with all five completed.
C6_ResearchOrder ==
    rpc # "idle" =>
        /\ Len(rtrace) <= Len(ResearchOrder)
        /\ rtrace = SubSeq(ResearchOrder, 1, Len(rtrace))
        /\ rpc \in ResearchNodes =>
              /\ Len(rtrace) < Len(ResearchOrder)
              /\ rpc = ResearchOrder[Len(rtrace) + 1]
        /\ rpc = "done" => rtrace = ResearchOrder

\* C6 witness: a research run that reached done, having written a post
C6_Witness ==
    /\ rpc = "done"
    /\ Len(rtrace) = 5
    /\ Len(rstate.posting_plans) >= 1
    /\ rstate.posting_plans[1].post_content # None

\* C7: every step of every workflow has exactly one outgoing edge: the step
\* about to be executed has exactly one successor.
C7_StrictlyLinear ==
    /\ ppc \in LegacyNodes => Cardinality(Successors(PostEdges, ppc)) = 1
    /\ rpc \in ResearchNodes => Cardinality(Successors(ResearchEdges, rpc)) = 1

\* C8: the next_step a step writes into the run state is the step the
\* sequencer executes next (END when the run is over), in both pipelines.
C8_NextStepIsRoute ==
    /\ ppc \in LegacyNodes \cup {"done"} /\ ptrace # <<>> =>
          Routed(pstate.next_step) = ppc
    /\ rpc \in ResearchNodes \cup {"done"} /\ rtrace # <<>> =>
          Routed(rstate.next_step) = rpc

\* no node occurs twice in trace
NoRepeat(trace) ==
    \A j, k \in 1..Len(trace) : j # k => trace[j] # trace[k]

\* C9: every run of a pipeline terminates, in done or by an error that
\* aborts it, and no step is executed twice within a run.
C9_RunsTerminate ==
    /\ [](NoRepeat(ptrace) /\ NoRepeat(rtrace))
    /\ (ppc \in LegacyNodes) ~> (ppc \in {"done", "failed"})
    /\ (rpc \in ResearchNodes) ~> (rpc \in {"done", "failed"})

\* C9 witness: a run of the single-post agent of agents/post_agent.py, made
\* for a plan of the batch, has gone through its four steps
C9_Witness ==
    /\ agent = "research_agent"
    /\ ppc = "done"
    /\ Len(ptrace) = 4
    /\ rpc = "write_post"

\* C10: a post-generation response without the [START_POST] or the
\* [END_POST] marker is handled inside generate_post: the step completes
\* and no error of its own making escapes it.
C10_MalformedOutputHandled ==
    ~(ppc = "failed" /\ perr.step = "generate_post" /\ perr.origin = "step")

\* the record select_news keeps of an article
Selected(item) == [title |-> item.title, link |-> item.link, snippet |-> item.snippet]

\* the content of the last turn of messages
LastContent(messages) == messages[Len(messages)].content

\* C11: single-index selection over a non-empty candidate list: when the
\* ranking response is an integer i with 0 <= i < length, candidate i is
\* selected; when it is no integer or an integer outside 0..length-1,
\* candidate 0 is selected.
C11_SingleIndexSelection ==
    ppc = "generate_post" =>
        LET news_items == json_loads(pstate.news_content.raw_content)
            content == LastContent(pstate.messages)
        IN  news_items # <<>> =>
              pstate.selected_news =
                 Selected(news_items[IF /\ content.isInt
                                        /\ 0 <= content.value
                                        /\ content.value < Len(news_items)
                                     THEN content.value + 1
                                     ELSE 1])

\* the candidates at the indices of indices that lie in 0..Len(news)-1, in
\* the order listed
InBoundsPicks(news, indices) ==
    LET ok == SelectSeq(indices, LAMBDA i : 0 <= i /\ i < Len(news))
    IN  [k \in 1..Len(ok) |-> news[ok[k] + 1]]

\* C12: multi-index selection over n candidates never raises; when the
\* response (a fenced wrapper stripped) is a JSON array of integers, the
\* result is the candidates at the listed indices that are within bounds, in
\* listed order; for every other response it is the first min(7, n)
\* candidates.
C12_MultiIndexSelection ==
    /\ ~(rpc = "failed" /\ rerr.step = "select_news" /\ rerr.origin = "step")
    /\ rpc = "plan_posts" =>
          LET news == json_loads(rstate.news_content.raw_content)
              content == LastContent(rstate.messages)
          IN  rstate.selected_news =
                 IF json_kind(content) = "list"
                 THEN InBoundsPicks(news, content.value)
                 ELSE SubSeq(news, 1, Min(7, Len(news)))

\* generate_post has completed in this run
Generated == Len(ptrace) >= 4 /\ ptrace[4] = "generate_post"

\* C13: once generate_post has completed, the final post text is the parsed
\* marker span of the post-generation response, then a blank line, then the
\* link of the article select_news chose; for the ranking response 1 this is
\* the link of article 1.
C13_FinalPostText ==
    Generated =>
        LET news_items == json_loads(pstate.news_content.raw_content)
            rank == pstate.messages[2].content
            generated == pstate.messages[3].content
        IN  /\ pstate.linkedin_post =
                  parse(generated) \o <<"\n", "\n">> \o <<pstate.selected_news.link>>
            /\ parse(generated) # None
            /\ rank = RankInt(1) /\ Len(news_items) >= 2 =>
                  pstate.selected_news.link = news_items[2].link

\* C13 witness: a run over two articles with ranking response 1 ended with
\* the post "Post", a blank line and the link of article 1
C13_Witness ==
    /\ ppc = "done"
    /\ agent = "post_agent"
    /\ Len(json_loads(pstate.news_content.raw_content)) = 2
    /\ pstate.messages[2].content = RankInt(1)
    /\ pstate.linkedin_post = <<"P", "o", "s", "t", "\n", "\n", "hitlink1">>

TokenSet == "LINKEDIN_ACCESS_TOKEN" \in environ

\* C14: when LINKEDIN_ACCESS_TOKEN is missing, a run of the single-post
\* pipeline does not end in done: it is aborted by the credential error of
\* the posting step, no posting client is created and nothing is published.
C14_MissingCredentialAborts ==
    ~TokenSet =>
        /\ ppc # "done"
        /\ clients = 0
        /\ published = <<>>
        /\ ppc = "failed" /\ perr.step = "post_to_linkedin" =>
              perr.text = TokenMissingText

\* C15: save_to_database always makes the expire update and then the insert
\* of the new batch, whether or not either call raises; the step itself
\* never raises and the run goes to done.
C15_SaveCatchesFailures ==
    /\ [](rerr.step # "save_to_database")
    /\ [][rpc = "save_to_database" =>
            /\ rpc' = "done"
            /\ Len(dbcalls') = Len(dbcalls) + 2
            /\ dbcalls'[Len(dbcalls) + 1].op = "update"
            /\ dbcalls'[Len(dbcalls) + 2].op = "insert"
            /\ dbcalls'[Len(dbcalls) + 2].rows = articles_to_save(rstate.posting_plans)]_vars

\* C15 witness: both calls raised, on a batch of one row, and the run is done
C15_Witness ==
    /\ rpc = "done"
    /\ Len(dbcalls) = 2
    /\ dbcalls[1].op = "update" /\ ~dbcalls[1].ok
    /\ dbcalls[2].op = "insert" /\ ~dbcalls[2].ok
    /\ Len(dbcalls[2].rows) = 1

\* the rows that are not expired
Active(rows) == SelectSeq(rows, LAMBDA r : r.expired = SqlNull)

\* C16: the two calls of save_to_database are not one transaction and
\* nothing deduplicates: when the expire update raised and the insert
\* succeeded, the rows of earlier batches stay as they were (not expired)
\* beside the new rows; when the update succeeded and the insert raised, no
\* row is left that is not expired; every successful insert adds one row per
\* plan entry, also when the table already holds the same entries.
C16_SaveNotAtomic ==
    [][rpc = "save_to_database" /\ rpc' = "done" =>
          LET update == dbcalls'[Len(dbcalls) + 1]
              insert == dbcalls'[Len(dbcalls) + 2]
              new_rows == [k \in 1..Len(insert.rows) |->
                              Merge(insert.rows[k], [expired |-> SqlNull])]
          IN  /\ ~update.ok /\ insert.ok =>
                    /\ table' = table \o new_rows
                    /\ Active(table') = Active(table) \o new_rows
              /\ update.ok /\ ~insert.ok => Active(table') = <<>>
              /\ insert.ok => Len(table') = Len(table) + Len(rstate.posting_plans)]_vars

\* C16 witness: the run inserted the entry the earlier run had inserted; the
\* expire update raised, so the table holds the same row twice, both not
\* expired
C16_Witness ==
    /\ rpc = "done"
    /\ Len(dbcalls) = 2 /\ ~dbcalls[1].ok /\ dbcalls[2].ok
    /\ Len(table) = 2
    /\ table[1] = table[2]
    /\ table[1].expired = SqlNull
    /\ <<table[1]>> = PreviousBatch

\* sub stands at position i of text
At(text, i, sub) ==
    /\ i + Len(sub) - 1 <= Len(text)
    /\ \A k \in 1..Len(sub) : text[i + k - 1] = sub[k]

\* sub occurs in text
Occurs(text, sub) == \E i \in 1..Len(text) : At(text, i, sub)

\* parse has been applied to the text
Parsed == parser.pc \in {"parsed", "cleaned", "recleaned"}

\* C17: parse returns None (not found), and raises nothing, for every text
\* that lacks the start marker or lacks the end marker.
C17_AbsentMarkerNotFound ==
    Parsed /\ (~Occurs(parser.text, start_marker) \/ ~Occurs(parser.text, end_marker)) =>
        parser.parsed = None

\* C17 witness: a text with the start marker and a letter but no end marker
\* was parsed to None
C17_Witness ==
    /\ Parsed
    /\ Occurs(parser.text, start_marker)
    /\ ~Occurs(parser.text, end_marker)
    /\ Occurs(parser.text, <<"a">>)
    /\ parser.parsed = None

\* x has no marker and no Markdown: letters, blanks and newlines, never
\* three newlines in a row
Plain(x) ==
    /\ \A k \in 1..Len(x) : x[k] \in {"a", " ", "\n"}
    /\ ~Occurs(x, <<"\n", "\n", "\n">>)

\* the position of the first start marker of text, 0 without one
FirstStart(text) ==
    IF Occurs(text, start_marker)
    THEN MinOf({i \in 1..Len(text) : At(text, i, start_marker)})
    ELSE 0

\* C18: for a text whose start marker is followed by X and the end marker,
\* X without markers and Markdown, parse returns X with leading and trailing
\* whitespace removed (the empty string for an empty X), whatever precedes
\* the start marker and whatever follows the end marker.
C18_SpanTrimmed ==
    Parsed =>
        LET text == parser.text
            s == FirstStart(text)
        IN  s # 0 =>
              \A j \in (s + Len(start_marker))..Len(text) :
                 LET x == SubSeq(text, s + Len(start_marker), j - 1)
                 IN  At(text, j, end_marker) /\ Plain(x) => parser.parsed = strip(x)

\* C19: parse pairs the first start marker with the first end marker that
\* lies after it: when there is one, the result is the cleaned span between
\* the two, also when another end marker stands before the start marker.
C19_PairsFirstEndAfterStart ==
    Parsed =>
        LET text == parser.text
            s == FirstStart(text)
            ends == {j \in (s + Len(start_marker))..Len(text) : At(text, j, end_marker)}
        IN  s # 0 /\ ends # {} =>
              parser.parsed =
                 remove_markdown(strip(SubSeq(text, s + Len(start_marker), MinOf(ends) - 1)))

\* C20: cleaning is idempotent: _remove_markdown applied to its own output
\* returns it unchanged.
C20_CleaningIdempotent ==
    parser.pc = "recleaned" => parser.cleanings[2] = parser.cleanings[1]

\* _remove_markdown has been applied to the text
Cleaned == parser.pc \in {"cleaned", "recleaned"}

BlankLinesBecome(k, j) ==
    parser.text = BlankLineRun(k) => parser.cleanings[1] = BlankLineRun(j)

\* C22, as stated: the cleaned output never holds 3 or more consecutive
\* newlines; a run of 3 or more blank lines is collapsed to exactly one
\* blank line and a shorter run (0, 1 or 2 blank lines) is left as it is.
C22_BlankLinesCollapsed ==
    Cleaned =>
        /\ ~Occurs(parser.cleanings[1], Newlines(3))
        /\ \A k \in 0..MaxBlankLines :
              BlankLinesBecome(k, IF k >= 3 THEN 1 ELSE k)

\* C22, amended: the cleaned output never holds 3 or more consecutive
\* newlines; a run of 2 or more blank lines (3 or more newlines) is
\* collapsed to exactly one blank line and a shorter run (0 or 1 blank
\* line) is left as it is.
C22_Amended ==
    Cleaned =>
        /\ ~Occurs(parser.cleanings[1], Newlines(3))
        /\ \A k \in 0..MaxBlankLines :
              BlankLinesBecome(k, IF k >= 2 THEN 1 ELSE k)

\* C22 witness: 4 blank lines between two lines were collapsed to one
C22_Witness ==
    /\ Cleaned
    /\ parser.text = <<"a", "\n", "\n", "\n", "\n", "\n", "a">>
    /\ parser.cleanings[1] = <<"a", "\n", "\n", "a">>

\* the run-state keys a step of the single-post pipeline reads with
\* state[key] (state.get is not listed: it cannot fail)
PostReads(cls, node) ==
    CASE node = "search" -> {"topic", "messages"}
      [] node = "analyze" -> {"topic", "news_content", "messages"}
      [] node = "select_news" -> {"topic", "news_content", "messages"}
      [] node = "generate_post" -> {"messages", "selected_news"}
      [] node = "post_to_linkedin" ->
            IF cls = "agents" THEN {"topic", "linkedin_post", "messages"}
            ELSE {"topic", "linkedin_post", "messages", "news_content"}

\* the run-state keys a step of the research pipeline reads
ResearchReads(node) ==
    CASE node = "scrape" -> {"messages"}
      [] node = "select_news" -> {"news_content", "messages"}
      [] node = "plan_posts" -> {"selected_news", "messages", "news_content"}
      [] node = "write_post" ->
            {"posting_plans", "messages", "news_content", "selected_news"}
      [] node = "save_to_database" ->
            {"posting_plans", "messages", "news_content", "selected_news"}

\* the keys of a plan entry a step of the research pipeline reads
PlanReads(node) ==
    CASE node = "write_post" -> {"title"}
      [] node = "save_to_database" -> SavedFields
      [] OTHER -> {}

\* C23: fields are present before use: the step about to be executed finds
\* every run-state key it reads, and every plan-entry key it reads on every
\* plan entry; in particular save_to_database finds post_content (and
\* title, link, day, reason, snippet) on every entry and generate_post finds
\* selected_news with a link; no step fails with a KeyError.
C23_FieldsPresentBeforeUse ==
    /\ ppc \in LegacyNodes =>
          /\ PostReads(PostClass, ppc) \subseteq DOMAIN pstate
          /\ ppc = "generate_post" =>
                /\ pstate.selected_news # NoneDict
                /\ "link" \in DOMAIN pstate.selected_news
    /\ rpc \in ResearchNodes =>
          /\ ResearchReads(rpc) \subseteq DOMAIN rstate
          /\ PlanReads(rpc) # {} =>
                \A k \in 1..Len(rstate.posting_plans) :
                    PlanReads(rpc) \subseteq DOMAIN rstate.posting_plans[k]
    /\ \A key \in SavedFields : rerr.text # KeyErrorText(key)

\* a run of the single-post pipeline has been started and its result has not
\* been consumed yet
PostRunInProgress == ppc # "idle"

\* C24: the batch loop handles the plan entries one at a time, in plan
\* order: while entry i is being attempted, every entry before it has its
\* post_content and no entry after it has one; the loop moves from entry i
\* to entry i + 1 and nowhere else; an entry that is done with is not
\* changed again; and a run of the single-post pipeline is started only
\* when no other is in progress, and is in progress only inside an attempt.
C24_OneEntryAtATime ==
    /\ [](rpc = "write_post" /\ loop.phase # "idle" =>
            /\ \A k \in 1..Len(loop.posting_plans) :
                  /\ k < loop.i => "post_content" \in DOMAIN loop.posting_plans[k]
                  /\ k > loop.i => "post_content" \notin DOMAIN loop.posting_plans[k]
                  /\ k = loop.i /\ loop.phase # "head" =>
                        "post_content" \notin DOMAIN loop.posting_plans[k]
            /\ PostRunInProgress <=> loop.phase = "running")
    /\ [][rpc = "write_post" /\ loop.phase # "idle" /\ loop' # LoopIdle =>
            /\ loop'.i \in {loop.i, loop.i + 1}
            /\ loop'.i = loop.i + 1 =>
                  loop.phase = "head" /\ loop'.phase = "attempt"
            /\ \A k \in 1..Len(loop.posting_plans) :
                  (k < loop.i \/ (k = loop.i /\ loop.phase = "head")) =>
                      loop'.posting_plans[k] = loop.posting_plans[k]]_vars
    /\ [][ppc' = "search" => ppc = "idle"]_vars

\* C24 witness: the second entry is being attempted, the first has its post
\* and the second has none yet
C24_Witness ==
    /\ rpc = "write_post"
    /\ loop.phase = "running"
    /\ ppc = "generate_post"
    /\ loop.i = 2
    /\ loop.posting_plans[1].post_content # None
    /\ "post_content" \notin DOMAIN loop.posting_plans[2]

\* list a is a prefix of list b
IsPrefix(a, b) == Len(a) <= Len(b) /\ a = SubSeq(b, 1, Len(a))

\* C25: the conversation-turn list is append-only: over every step of
\* either pipeline the messages list held before the step is a prefix of the
\* messages list after it.
C25_MessagesAppendOnly ==
    /\ [][(ppc \in LegacyNodes) => IsPrefix(pstate.messages, pstate'.messages)]_vars
    /\ [][(rpc \in ResearchNodes) => IsPrefix(rstate.messages, rstate'.messages)]_vars

\* C25 witness: a run of the single-post pipeline ended with the analysis,
\* the ranking and the post-generation response, in this order
C25_Witness ==
    /\ ppc = "done"
    /\ Len(ptrace) >= 4
    /\ Len(pstate.messages) = 3
    /\ pstate.messages[1].content = AnalysisText
    /\ pstate.messages[2].content \in RankResponses
    /\ pstate.messages[3].content \in GenResponses

\* plan entry new is plan entry old with nothing but post_content written
OnlyPostContentWritten(old, new) ==
    /\ DOMAIN new \in {DOMAIN old, DOMAIN old \cup {"post_content"}}
    /\ \A key \in DOMAIN old \ {"post_content"} : new[key] = old[key]

\* the plans new are the plans old, entry by entry, with nothing but
\* post_content written
SamePlans(old, new) ==
    /\ Len(new) = Len(old)
    /\ \A k \in 1..Len(old) : OnlyPostContentWritten(old[k], new[k])

\* C26: _write_post changes nothing but post_content: while it runs and
\* when it returns, the posting plans are the entries it was given, as many
\* and in the same order, each with its day, article_index, title, link,
\* snippet and reason as before, and the run state's messages, news_content
\* and selected_news are as before.
C26_WritePostFrame ==
    /\ [](rpc = "write_post" /\ loop.phase # "idle" =>
            SamePlans(rstate.posting_plans, loop.posting_plans))
    /\ [][rpc = "write_post" =>
            /\ SamePlans(rstate.posting_plans, rstate'.posting_plans)
            /\ rstate'.messages = rstate.messages
            /\ rstate'.news_content = rstate.news_content
            /\ rstate'.selected_news = rstate.selected_news]_vars

\* C26 witness: _write_post has returned a plan of two entries, Friday for
\* article 1 and Monday for article 0, each with a generated post
C26_Witness ==
    /\ rpc = "save_to_database"
    /\ Len(rstate.posting_plans) = 2
    /\ rstate.posting_plans[1].day = "Friday"
    /\ rstate.posting_plans[1].article_index = 1
    /\ rstate.posting_plans[1].title = "title1"
    /\ rstate.posting_plans[2].day = "Monday"
    /\ rstate.posting_plans[2].title = "title0"
    /\ rstate.posting_plans[1].post_content # None
    /\ rstate.posting_plans[2].post_content # None

\* the number of the day of the week, Monday being 1
DayNumber(day) == CHOOSE d \in 1..Len(days) : days[d] = day

\* how many entries of plans fall on day
EntriesOn(plans, day) == Cardinality({k \in 1..Len(plans) : plans[k].day = day})

\* C27: the fallback plan over n selected articles has exactly min(14, n)
\* entries; their article_index values are 0, 1, 2, ... in this order, none
\* repeated; no day has more than 2 entries; the days appear in the order
\* Monday to Sunday; and a day has an entry only if every earlier day has 2.
C27_FallbackPlanShape ==
    planner.pc = "planned" =>
        LET plans == planner.posting_plans
            n == Len(planner.selected_news)
        IN  /\ Len(plans) = Min(14, n)
            /\ \A k \in 1..Len(plans) : plans[k].article_index = k - 1
            /\ \A d \in 1..Len(days) : EntriesOn(plans, days[d]) <= 2
            /\ \A j, k \in 1..Len(plans) :
                  j < k => DayNumber(plans[j].day) <= DayNumber(plans[k].day)
            /\ \A d \in 1..Len(days) :
                  EntriesOn(plans, days[d]) > 0 =>
                      \A e \in 1..(d - 1) : EntriesOn(plans, days[e]) = 2

\* C27 witness: 15 selected articles gave 14 entries, the last one on
\* Sunday for article 13
C27_Witness ==
    /\ planner.pc = "planned"
    /\ Len(planner.selected_news) = 15
    /\ Len(planner.posting_plans) = 14
    /\ planner.posting_plans[14].day = "Sunday"
    /\ planner.posting_plans[14].article_index = 13
    /\ planner.posting_plans[3].day = "Tuesday"

\* the insert calls among calls
Inserts(calls) == SelectSeq(calls, LAMBDA c : c.op = "insert")

\* row is the row of plan entry plan
RowOf(plan, row) ==
    /\ SavedFields \subseteq DOMAIN plan
    /\ \A key \in SavedFields : row[key] = plan[key]

\* C28: save_to_database submits exactly one row per posting-plan entry, in
\* plan order, the entries whose post_content is None included: the step
\* makes one insert call, whose k-th row is the k-th entry.
C28_OneRowPerEntry ==
    [][rpc = "save_to_database" =>
          LET inserts == Inserts(SubSeq(dbcalls', Len(dbcalls) + 1, Len(dbcalls')))
              plans == rstate.posting_plans
          IN  /\ Len(inserts) = 1
              /\ Len(inserts[1].rows) = Len(plans)
              /\ \A k \in 1..Len(plans) : RowOf(plans[k], inserts[1].rows[k])]_vars

\* the keys of the run state that the steps of the single-post pipeline add
StepWritten == {"news_content", "selected_news", "linkedin_post", "post_response"}

\* C29: every attempt of the batch write loop, the first for an entry and
\* every retry, starts the single-post pipeline at search with an empty
\* conversation history, with none of the fields a step writes, and with the
\* topic made from the entry's title, which it keeps throughout the attempt:
\* nothing an earlier attempt wrote is visible to it.
C29_AttemptsStartFresh ==
    /\ [][rpc = "write_post" /\ loop.phase = "attempt" /\ loop'.phase = "running" =>
            /\ ppc' = "search"
            /\ ptrace' = <<>>
            /\ pstate'.messages = <<>>
            /\ DOMAIN pstate' \cap StepWritten = {}
            /\ pstate'.topic.topic = loop.posting_plans[loop.i].title]_vars
    /\ [](rpc = "write_post" /\ loop.phase = "running" /\ ppc \in LegacyNodes =>
            /\ pstate.topic.topic = loop.posting_plans[loop.i].title
            /\ Len(pstate.messages) <= Len(ptrace))

\* C29 witness: the third attempt for the second entry is at search with
\* an empty history, after two attempts that failed on quota
C29_Witness ==
    /\ rpc = "write_post"
    /\ loop.phase = "running"
    /\ loop.i = 2
    /\ loop.attempt = 2
    /\ Len(Attempts(log)) = 2
    /\ QuotaFailure(Attempts(log)[2])
    /\ ppc = "search"
    /\ pstate.messages = <<>>
    /\ pstate.topic.topic = "title1"

\* C30: in a run of the single-post pipeline a post is published at most
\* once, and only by post_to_linkedin right after generate_post has completed
\* and left a linkedin_post that is not None, which is the text published;
\* the run is done right after publishing, a run of agents.py that is done
\* has published exactly once, a run of agents/post_agent.py that is done has
\* published nothing, and nothing is published once the run is done.
C30_PublishedAtMostOnce ==
    /\ [](Len(published) <= 1)
    /\ [][published' # published =>
            /\ ppc = "post_to_linkedin"
            /\ ptrace # <<>>
            /\ ptrace[Len(ptrace)] = "generate_post"
            /\ "linkedin_post" \in DOMAIN pstate
            /\ pstate.linkedin_post # None
            /\ published' = Append(published, pstate.linkedin_post)
            /\ ppc' = "done"]_vars
    /\ [](ppc = "done" => Len(published) = IF PostClass = "agents" THEN 1 ELSE 0)
    /\ [][ppc = "done" => published' = published]_vars

\* C30 witness: a run of agents.py is done, its five steps completed and
\* the text generate_post left published once
C30_Witness ==
    /\ agent = "agents"
    /\ ppc = "done"
    /\ ptrace = <<"search", "analyze", "select_news", "generate_post", "post_to_linkedin">>
    /\ published = <<pstate.linkedin_post>>
    /\ clients = 1

====
